---------------------------- MODULE Spec2Model ----------------------------
(***************************************************************************)
(* websent: a presentation server.  One State (the slides, the current     *)
(* slide, a generation counter) is guarded by a sync.RWMutex; the terminal *)
(* controller (tui, and the older cli) mutates it and calls                *)
(* cond.Broadcast(); every HTTP viewer has a handler (ServeHTTP) and a     *)
(* watcher goroutine (EventStream) that waits on the sync.Cond, re-reads   *)
(* the State and sends a diff on a channel of capacity 1.                  *)
(*                                                                         *)
(* The model follows src/unnamed/part_002 (the tui program).  The older    *)
(* cli program of src/main.go:1-368 shares EventStream and GotoSlide       *)
(* verbatim; its controller, Reload and handler are modelled separately    *)
(* (the definitions whose names end in V1 or start with cli).             *)
(***************************************************************************)
EXTENDS Integers, Sequences, FiniteSets, TLC

(***************************************************************************)
(* Bounds.                                                                 *)
(***************************************************************************)
\* number of commands the controller reads (one viewer)
MaxCmds == 3
\* number of commands the controller reads (two viewers)
MaxPairCmds == 2
\* number of commands the controller reads (no viewer, navigation only)
MaxNavCmds == 9
\* number of commands the controller reads (one viewer, main modelled)
MaxShutCmds == 2
\* number of keys the cli program's controller reads (one viewer)
MaxCliCmds == 3

\* The viewer connections; each connects at most once.  Spec has the first
\* only, PairSpec both.
Viewers == {1, 2}

Solo == {1}

(***************************************************************************)
(* File contents.  A file is a sequence of tokens: "S" is the slide        *)
(* separator "\n\n\n" (white space), "h1"/"h2" a chunk that starts with    *)
(* "# " (a heading line), any other token a chunk of text.                 *)
(***************************************************************************)
Sep == "S"

Headings == {"h1", "h2"}

RECURSIVE TrimLeft(_)
TrimLeft(c) ==
    IF c # <<>> /\ Head(c) = Sep THEN TrimLeft(Tail(c)) ELSE c

RECURSIVE TrimRight(_)
TrimRight(c) ==
    IF c # <<>> /\ c[Len(c)] = Sep THEN TrimRight(SubSeq(c, 1, Len(c) - 1)) ELSE c

\* bytes.TrimSpace: the separator is white space, so leading and trailing
\* separators go
TrimSpace(c) == TrimRight(TrimLeft(c))

\* bytes.Split(content, "\n\n\n"): always at least one piece; the empty
\* content gives one empty piece
RECURSIVE SplitFrom(_, _, _)
SplitFrom(c, piece, acc) ==
    IF c = <<>> THEN Append(acc, piece)
    ELSE IF Head(c) = Sep THEN SplitFrom(Tail(c), <<>>, Append(acc, piece))
    ELSE SplitFrom(Tail(c), Append(piece, Head(c)), acc)

Split(c) == SplitFrom(c, <<>>, <<>>)

\* the presentation file as the file system holds it at the time of a load
Unreadable == [ok |-> FALSE, content |-> <<>>]

File(c) == [ok |-> TRUE, content |-> c]

ThreeSlides == File(<<"h1", "S", "x", "S", "y">>)

\* what the presentation file may hold when it is loaded again: nothing
\* readable, nothing at all, white space only, three slides
Files == {Unreadable, File(<<>>), File(<<"S">>), ThreeSlides}

\* the four-slide presentation of the navigation scenario
FourSlides == File(<<"h1", "S", "x", "S", "y", "S", "z">>)

\* the stylesheet as the file system (or the embedded styles) holds it
Styles == {"css", "ERR"}

NoLoad == [err |-> TRUE, title |-> "", slides |-> <<>>, raw |-> <<>>, style |-> ""]

loadSlides(file) ==
    IF ~file.ok THEN NoLoad
    ELSE
      LET content == TrimSpace(file.content)
          pieces == Split(content)
          slidesHTML == [i \in 1..Len(pieces) |-> [id |-> i, body |-> pieces[i]]]
          slidesMarkdown == [i \in 1..Len(pieces) |-> pieces[i]]
          title == IF content # <<>> /\ Head(content) \in Headings
                   THEN Head(content) ELSE "websent"
      IN  IF Len(slidesMarkdown) < 1 THEN NoLoad
          ELSE [err |-> FALSE, title |-> title, slides |-> slidesHTML,
                raw |-> slidesMarkdown, style |-> ""]

loadUserStyle(stylesheet) ==
    IF stylesheet = "ERR" THEN [err |-> TRUE, style |-> ""]
    ELSE [err |-> FALSE, style |-> stylesheet]

(***************************************************************************)
(* State and its methods.                                                  *)
(***************************************************************************)
\* main: state := &State{Current: 1, ...}
ZeroState ==
    [Current |-> 1, Total |-> 0, Generation |-> 0, Title |-> "",
     Slides |-> <<>>, SlidesRaw |-> <<>>, UserStyle |-> ""]

\* GotoSlide without its second branch: a target past the end is stored
GotoSlideNoUpper(s, slide) ==
    IF slide < 1 THEN [s EXCEPT !.Current = 1]
    ELSE [s EXCEPT !.Current = slide]

\* the body of State.GotoSlide, run under the exclusive lock
GotoSlide(s, slide) ==
    IF slide < 1 THEN [s EXCEPT !.Current = 1]
    ELSE IF slide > s.Total THEN [s EXCEPT !.Current = s.Total]
    ELSE [s EXCEPT !.Current = slide]

\* Reload that does not look at the stylesheet's error
ReloadLoadSkipStyleErr(file, stylesheet) ==
    LET l == loadSlides(file)
        u == loadUserStyle(stylesheet)
    IN  IF l.err THEN NoLoad
        ELSE [l EXCEPT !.style = u.style]

\* State.Reload before the lock: both loads, either may fail
ReloadLoad(file, stylesheet) ==
    LET l == loadSlides(file)
        u == loadUserStyle(stylesheet)
    IN  IF l.err THEN NoLoad
        ELSE IF u.err THEN NoLoad
        ELSE [l EXCEPT !.style = u.style]

\* Reload that leaves Current alone when the presentation got shorter
ReloadCommitNoClamp(s, l) ==
    [Current |-> s.Current,
     Total |-> Len(l.slides),
     Generation |-> s.Generation + 1,
     Title |-> l.title,
     Slides |-> l.slides,
     SlidesRaw |-> l.raw,
     UserStyle |-> l.style]

\* State.Reload under the exclusive lock
ReloadCommit(s, l) ==
    LET total == Len(l.slides)
    IN  [Current |-> IF s.Current > total THEN total ELSE s.Current,
         Total |-> total,
         Generation |-> s.Generation + 1,
         Title |-> l.title,
         Slides |-> l.slides,
         SlidesRaw |-> l.raw,
         UserStyle |-> l.style]

\* main: the initial state.Reload (fatal when it fails) of a presentation
InitialState(file) == ReloadCommit(ZeroState, ReloadLoad(file, "css"))

(***************************************************************************)
(* The program's state.                                                    *)
(***************************************************************************)
VARIABLES
    st,         \* the State struct (all fields but the mutex)
    wlock,      \* State.M, the writer's side: "free" or "pending" (Lock() was
                \* called and has not returned)
    readers,    \* State.M, the readers inside: <<viewer, "w">> a watcher,
                \* <<viewer, "h">> a handler
    cpc,        \* the controller's position
    creq,       \* the mutation the controller is carrying out
    shutdown,   \* main's ctx is cancelled
    dropping,   \* main's dropping
    connected,  \* SlideHandler.connected
    hpc,        \* each handler's position in ServeHTTP
    sctx,       \* each handler's streamctx is cancelled
    snap,       \* the page each handler is rendering or has rendered (else <<>>)
    delivered,  \* the events each handler wrote to its response
    wpc,        \* each watcher's position in EventStream's goroutine
    wgen,       \* each watcher's local generation
    wcur,       \* each watcher's local current
    ch,         \* each EventStream channel's buffer (capacity 1)
    closed,     \* each EventStream channel is closed
    observed,   \* history: the values each watcher's current has held
    idxHist,    \* history: the values State.Current has held
    nreload,    \* history: how many times Reload has replaced the content
    last,       \* history: the last command the controller read
    ncmd,       \* history: how many commands the controller has read
    mpc,        \* main's position once the server is started
    sig,        \* a termination signal has been delivered to sigchan
    dumped      \* what Dump has written to the output file

vars ==
    <<st, wlock, readers, cpc, creq, shutdown, dropping, connected, hpc, sctx,
      snap, delivered, wpc, wgen, wcur, ch, closed, observed, idxHist, nreload,
      last, ncmd, mpc, sig, dumped>>

histVars == <<idxHist, nreload>>

ctlVars == <<cpc, creq, last, ncmd>>

handlerVars == <<hpc, sctx, snap, delivered, connected>>

watcherVars == <<wpc, wgen, wcur, observed>>

chanVars == <<ch, closed>>

mainVars == <<mpc, sig, dumped>>

\* the server and the controller are started and the process has not exited:
\* every goroutine ends when main returns, and none is started for -output
Running == mpc \in {"serve", "check", "grace", "closing"}

\* the events of an EventStream: an int (the new slide) or the string "refresh"
SlideChanged(i) == [kind |-> "slide", idx |-> i]

ContentReloaded == [kind |-> "refresh", idx |-> 0]

\* what a handler writes besides events: partials/trailer.html
Trailer == [kind |-> "trailer", idx |-> 0]

\* the goroutines blocked in cond.Wait(): the Cond's notify list
Waiters == {v \in Viewers : wpc[v] = "waiting"}

\* sync.RWMutex.RLock returns at once unless a writer holds the lock or waits
\* for it (a waiting writer blocks new readers)
CanRLock == wlock = "free"

\* <-ctx.Done() of a viewer's streamctx, a child of main's ctx
StreamDone(v) == shutdown \/ sctx[v]

\* everything the events channel has been sent: what was received, then the buffer
Emitted(v) == delivered[v] \o ch[v]

NoReq == [op |-> "none", slide |-> 0, load |-> NoLoad]

StartWith(s, pos) ==
    /\ st = s
    /\ wlock = "free"
    /\ readers = {}
    /\ cpc = "idle"
    /\ creq = NoReq
    /\ shutdown = FALSE
    /\ dropping = 0
    /\ connected = 0
    /\ hpc = [v \in Viewers |-> "off"]
    /\ sctx = [v \in Viewers |-> FALSE]
    /\ snap = [v \in Viewers |-> <<>>]
    /\ delivered = [v \in Viewers |-> <<>>]
    /\ wpc = [v \in Viewers |-> "none"]
    /\ wgen = [v \in Viewers |-> 0]
    /\ wcur = [v \in Viewers |-> 0]
    /\ ch = [v \in Viewers |-> <<>>]
    /\ closed = [v \in Viewers |-> FALSE]
    /\ observed = [v \in Viewers |-> <<>>]
    /\ idxHist = <<s.Current>>
    /\ nreload = 0
    /\ last = [cmd |-> "none", arg |-> 0, ok |-> TRUE, pre |-> s,
               n |-> 0, from |-> s.Current, loop |-> {}]
    /\ ncmd = 0
    /\ mpc = pos
    /\ sig = FALSE
    /\ dumped = <<>>

\* main with no -output: the server and the controller are started
InitWith(s) == StartWith(s, "serve")

Init == InitWith(InitialState(ThreeSlides))

(***************************************************************************)
(* The controller: tui's loop, one command per PollEvent.                  *)
(***************************************************************************)
NavCmds == {"First", "Last", "Next", "Prev"}

\* tui whose case Prev was copied from case Next and not changed
NavTargetPrevAsNext(cmd) ==
    CASE cmd = "First" -> 1
      [] cmd = "Last" -> st.Total
      [] cmd = "Next" -> st.Current + 1
      [] cmd = "Prev" -> st.Current + 1

\* the argument tui hands to GotoSlide (it reads the State without the lock:
\* it is the only writer)
NavTarget(cmd) ==
    CASE cmd = "First" -> 1
      [] cmd = "Last" -> st.Total
      [] cmd = "Next" -> st.Current + 1
      [] cmd = "Prev" -> st.Current - 1

\* history: the command just read, how many times in a row it was read, and
\* for Quit the handlers that were in their loop
Record(cmd, arg, ok) ==
    [cmd |-> cmd, arg |-> arg, ok |-> ok, pre |-> st,
     n |-> IF last.cmd = cmd THEN last.n + 1 ELSE 1,
     from |-> IF last.cmd = cmd THEN last.from ELSE st.Current,
     loop |-> IF cmd = "Quit" THEN {v \in Viewers : hpc[v] = "loop"} ELSE {}]

\* case First, Last, Next, Prev: state.GotoSlide(...) is called and asks for
\* the exclusive lock
tuiNav(cmd, max) ==
    /\ Running
    /\ UNCHANGED mainVars
    /\ cpc = "idle"
    /\ ncmd < max
    /\ cpc' = "lock"
    /\ wlock' = "pending"
    /\ creq' = [op |-> "goto", slide |-> NavTarget(cmd), load |-> NoLoad]
    /\ last' = Record(cmd, NavTarget(cmd), TRUE)
    /\ ncmd' = ncmd + 1
    /\ UNCHANGED <<st, readers, shutdown, dropping, histVars>>
    /\ UNCHANGED <<handlerVars, watcherVars, chanVars>>

\* case Reload: state.Reload(...) loads the files first; an error is logged and
\* the loop continues, otherwise Reload asks for the exclusive lock
tuiReload(file, stylesheet, max) ==
    /\ Running
    /\ UNCHANGED mainVars
    /\ cpc = "idle"
    /\ ncmd < max
    /\ LET l == ReloadLoad(file, stylesheet)
       IN  IF l.err
           THEN /\ last' = Record("Reload", 0, FALSE)
                /\ UNCHANGED <<cpc, creq, wlock>>
           ELSE /\ cpc' = "lock"
                /\ wlock' = "pending"
                /\ creq' = [op |-> "reload", slide |-> 0, load |-> l]
                /\ last' = Record("Reload", 0, TRUE)
    /\ ncmd' = ncmd + 1
    /\ UNCHANGED <<st, readers, shutdown, dropping, histVars>>
    /\ UNCHANGED <<handlerVars, watcherVars, chanVars>>

\* an exclusive lock that does not wait for the readers inside
CanLockOverReaders == TRUE

\* s.M.Lock() returns: no reader is inside
CanLock == readers = {}

\* history: State.Current has a new value
Moved(s) == IF s.Current # st.Current THEN Append(idxHist, s.Current) ELSE idxHist

\* s.M.Lock() returns (no reader is inside), the body of GotoSlide runs, the
\* deferred Unlock releases the lock
GotoSlideBody ==
    /\ Running
    /\ UNCHANGED mainVars
    /\ cpc = "lock"
    /\ CanLock
    /\ creq.op = "goto"
    /\ st' = GotoSlide(st, creq.slide)
    /\ idxHist' = Moved(GotoSlide(st, creq.slide))
    /\ UNCHANGED nreload
    /\ wlock' = "free"
    /\ cpc' = "bcast"
    /\ UNCHANGED <<readers, creq, last, ncmd, shutdown, dropping>>
    /\ UNCHANGED <<handlerVars, watcherVars, chanVars>>

\* s.M.Lock() returns (no reader is inside), the locked part of Reload runs,
\* the deferred Unlock releases the lock
ReloadBody ==
    /\ Running
    /\ UNCHANGED mainVars
    /\ cpc = "lock"
    /\ CanLock
    /\ creq.op = "reload"
    /\ st' = ReloadCommit(st, creq.load)
    /\ idxHist' = Moved(ReloadCommit(st, creq.load))
    /\ nreload' = nreload + 1
    /\ wlock' = "free"
    /\ cpc' = "bcast"
    /\ UNCHANGED <<readers, creq, last, ncmd, shutdown, dropping>>
    /\ UNCHANGED <<handlerVars, watcherVars, chanVars>>

\* cond.Signal() in the place of cond.Broadcast(): one waiter is made runnable
Signal ==
    IF Waiters = {} THEN UNCHANGED wpc
    ELSE \E w \in Waiters : wpc' = [wpc EXCEPT ![w] = "woken"]

\* cond.Broadcast(): every goroutine in cond.Wait() is made runnable; one that
\* is not waiting right now is not affected
Broadcast ==
    wpc' = [v \in Viewers |-> IF v \in Waiters THEN "woken" ELSE wpc[v]]

\* a controller that also broadcasts before its mutation is in the State
tuiBroadcastEarly ==
    /\ Running
    /\ UNCHANGED mainVars
    /\ cpc \in {"lock", "bcast"}
    /\ Broadcast
    /\ cpc' = IF cpc = "bcast" THEN "idle" ELSE cpc
    /\ creq' = IF cpc = "bcast" THEN NoReq ELSE creq
    /\ UNCHANGED <<st, wlock, readers, last, ncmd, shutdown, dropping, histVars>>
    /\ UNCHANGED <<handlerVars, wgen, wcur, observed, chanVars>>

\* cond.Broadcast() after GotoSlide or a successful Reload
tuiBroadcast ==
    /\ Running
    /\ UNCHANGED mainVars
    /\ cpc = "bcast"
    /\ Broadcast
    /\ cpc' = "idle"
    /\ creq' = NoReq
    /\ UNCHANGED <<st, wlock, readers, last, ncmd, shutdown, dropping, histVars>>
    /\ UNCHANGED <<handlerVars, wgen, wcur, observed, chanVars>>

\* a Quit case that broadcasts without having called shutdown()
tuiQuitNoShutdown(max) ==
    /\ Running
    /\ UNCHANGED mainVars
    /\ cpc = "idle"
    /\ ncmd < max
    /\ dropping' = connected
    /\ UNCHANGED shutdown
    /\ cpc' = "qbcast"
    /\ last' = Record("Quit", connected, TRUE)
    /\ ncmd' = ncmd + 1
    /\ UNCHANGED <<st, wlock, readers, creq, histVars>>
    /\ UNCHANGED <<handlerVars, watcherVars, chanVars>>

\* case Quit: *dropping = *connected; shutdown()
tuiQuit(max) ==
    /\ Running
    /\ UNCHANGED mainVars
    /\ cpc = "idle"
    /\ ncmd < max
    /\ dropping' = connected
    /\ shutdown' = TRUE
    /\ cpc' = "qbcast"
    /\ last' = Record("Quit", connected, TRUE)
    /\ ncmd' = ncmd + 1
    /\ UNCHANGED <<st, wlock, readers, creq, histVars>>
    /\ UNCHANGED <<handlerVars, watcherVars, chanVars>>

\* case Quit, continued: cond.Broadcast(); screen.Fini(); return
tuiQuitBroadcast ==
    /\ Running
    /\ UNCHANGED mainVars
    /\ cpc = "qbcast"
    /\ Broadcast
    /\ cpc' = "exit"
    /\ UNCHANGED <<st, wlock, readers, creq, last, ncmd, shutdown, dropping, histVars>>
    /\ UNCHANGED <<handlerVars, wgen, wcur, observed, chanVars>>

\* what tcell hands to the loop, as far as decodeTcellEvent tells it apart
TcellEvents ==
    {[type |-> "resize", arg |-> "none"], [type |-> "interrupt", arg |-> "none"]}
    \cup {[type |-> "mouse", arg |-> b] :
            b \in {"Button1", "Button2", "Button3", "WheelDown", "WheelUp"}}
    \cup {[type |-> "rune", arg |-> r] :
            r \in {"g", "G", "j", "k", "t", "n", "r", "q", "x"}}
    \cup {[type |-> "key", arg |-> k] : k \in {"CtrlD", "CtrlC", "Enter"}}

decodeTcellEvent(event) ==
    CASE event.type = "resize" -> "Redraw"
      [] event.type = "mouse" ->
            (CASE event.arg \in {"Button1", "WheelDown"} -> "Next"
               [] event.arg \in {"Button2", "WheelUp"} -> "Prev"
               [] OTHER -> "Unknown")
      [] event.type = "rune" ->
            (CASE event.arg = "g" -> "First"
               [] event.arg = "G" -> "Last"
               [] event.arg \in {"j", "t"} -> "Next"
               [] event.arg \in {"k", "n"} -> "Prev"
               [] event.arg = "r" -> "Reload"
               [] event.arg = "q" -> "Quit"
               [] OTHER -> "Unknown")
      [] event.type = "key" ->
            (CASE event.arg \in {"CtrlD", "CtrlC"} -> "Quit"
               [] OTHER -> "Unknown")
      [] OTHER -> "Unknown"

\* a loop whose Redraw case ends with cond.Broadcast() like its neighbours
tuiOtherBroadcasts(cmd, max) ==
    /\ Running
    /\ UNCHANGED mainVars
    /\ cpc = "idle"
    /\ ncmd < max
    /\ cmd \in {"Redraw", "Unknown"}
    /\ last' = Record(cmd, 0, TRUE)
    /\ ncmd' = ncmd + 1
    /\ Broadcast
    /\ UNCHANGED <<st, wlock, readers, cpc, creq, shutdown, dropping, histVars>>
    /\ UNCHANGED <<handlerVars, wgen, wcur, observed, chanVars>>

\* case Redraw (panel.Resize, panel.Draw) and Unknown (no case): the loop goes on
tuiOther(cmd, max) ==
    /\ Running
    /\ UNCHANGED mainVars
    /\ cpc = "idle"
    /\ ncmd < max
    /\ cmd \in {"Redraw", "Unknown"}
    /\ last' = Record(cmd, 0, TRUE)
    /\ ncmd' = ncmd + 1
    /\ UNCHANGED <<st, wlock, readers, cpc, creq, shutdown, dropping, histVars>>
    /\ UNCHANGED <<handlerVars, watcherVars, chanVars>>

(***************************************************************************)
(* main, once the server and the controller are started.                   *)
(***************************************************************************)
\* select { case <-sigchan: cancel() }: a termination signal arrives while
\* main waits; nothing but the context is touched
MainSignal ==
    /\ mpc = "serve"
    /\ ~sig
    /\ sig' = TRUE
    /\ shutdown' = TRUE
    /\ mpc' = "check"
    /\ UNCHANGED <<st, wlock, readers, dropping, histVars, dumped>>
    /\ UNCHANGED <<ctlVars, handlerVars, watcherVars, chanVars>>

\* select { case <-ctx.Done(): }: the controller has cancelled the context
MainCtxDone ==
    /\ mpc = "serve"
    /\ shutdown
    /\ mpc' = "check"
    /\ UNCHANGED <<st, wlock, readers, shutdown, dropping, histVars, sig, dumped>>
    /\ UNCHANGED <<ctlVars, handlerVars, watcherVars, chanVars>>

\* main that sleeps whatever dropping holds
MainCheckAlwaysSleeps ==
    /\ mpc = "check"
    /\ mpc' = "grace"
    /\ UNCHANGED <<st, wlock, readers, shutdown, dropping, histVars, sig, dumped>>
    /\ UNCHANGED <<ctlVars, handlerVars, watcherVars, chanVars>>

\* if dropping > 0 { time.Sleep(time.Second) }
MainCheck ==
    /\ mpc = "check"
    /\ mpc' = IF dropping > 0 THEN "grace" ELSE "closing"
    /\ UNCHANGED <<st, wlock, readers, shutdown, dropping, histVars, sig, dumped>>
    /\ UNCHANGED <<ctlVars, handlerVars, watcherVars, chanVars>>

\* time.Sleep(time.Second) returns
MainSleep ==
    /\ mpc = "grace"
    /\ mpc' = "closing"
    /\ UNCHANGED <<st, wlock, readers, shutdown, dropping, histVars, sig, dumped>>
    /\ UNCHANGED <<ctlVars, handlerVars, watcherVars, chanVars>>

\* srv.Shutdown(...) returns, or fails after its second and log.Fatal ends the
\* process: main is over either way
MainShutdown ==
    /\ mpc = "closing"
    /\ mpc' = "exited"
    /\ UNCHANGED <<st, wlock, readers, shutdown, dropping, histVars, sig, dumped>>
    /\ UNCHANGED <<ctlVars, handlerVars, watcherVars, chanVars>>

(***************************************************************************)
(* main with -output: SlideHandler.Dump writes the page to a file; neither *)
(* the server nor the controller is started.                               *)
(***************************************************************************)
\* the reader that Dump is in the RWMutex
Dumper == <<0, "d">>

Page(s) == [kind |-> "page", idx |-> s.Current]

\* h.state.M.RLock()
DumpLock ==
    /\ mpc = "dump"
    /\ CanRLock
    /\ readers' = readers \cup {Dumper}
    /\ mpc' = "dumpRender"
    /\ UNCHANGED <<st, wlock, shutdown, dropping, histVars, sig, dumped>>
    /\ UNCHANGED <<ctlVars, handlerVars, watcherVars, chanVars>>

\* templates.ExecuteTemplate(w, "main.html", h.state): with an error Dump
\* returns it at once, else h.state.M.RUnlock() follows
DumpRender(err) ==
    /\ mpc = "dumpRender"
    /\ IF err
       THEN /\ mpc' = "dumpFailed"
            /\ UNCHANGED <<readers, dumped>>
       ELSE /\ mpc' = "dumpTrailer"
            /\ readers' = readers \ {Dumper}
            /\ dumped' = Append(dumped, Page(st))
    /\ UNCHANGED <<st, wlock, shutdown, dropping, histVars, sig>>
    /\ UNCHANGED <<ctlVars, handlerVars, watcherVars, chanVars>>

\* w.Write(trailer); return err
DumpTrailer(err) ==
    /\ mpc = "dumpTrailer"
    /\ IF err
       THEN /\ mpc' = "dumpFailed"
            /\ UNCHANGED dumped
       ELSE /\ mpc' = "dumpDone"
            /\ dumped' = Append(dumped, Trailer)
    /\ UNCHANGED <<st, wlock, readers, shutdown, dropping, histVars, sig>>
    /\ UNCHANGED <<ctlVars, handlerVars, watcherVars, chanVars>>

\* log.Fatal(err) after a failed Dump, or w.Flush(); return after a good one
DumpExit ==
    /\ mpc \in {"dumpFailed", "dumpDone"}
    /\ mpc' = "exited"
    /\ UNCHANGED <<st, wlock, readers, shutdown, dropping, histVars, sig, dumped>>
    /\ UNCHANGED <<ctlVars, handlerVars, watcherVars, chanVars>>

(***************************************************************************)
(* EventStream: the goroutine of one viewer.                               *)
(***************************************************************************)
\* s.M.RLock(); generation := s.Generation; current := s.Current; s.M.RUnlock()
WatchInit(v) ==
    /\ Running
    /\ UNCHANGED mainVars
    /\ wpc[v] = "init"
    /\ CanRLock
    /\ wgen' = [wgen EXCEPT ![v] = st.Generation]
    /\ wcur' = [wcur EXCEPT ![v] = st.Current]
    /\ observed' = [observed EXCEPT ![v] = <<st.Current>>]
    /\ wpc' = [wpc EXCEPT ![v] = "prewait"]
    /\ UNCHANGED <<st, wlock, readers, shutdown, dropping, histVars>>
    /\ UNCHANGED <<ctlVars, handlerVars, chanVars>>

\* cond.L.Lock(); cond.Wait(): the goroutine joins the notify list and parks
\* (cond.L is held only here and on the way out of Wait, never while blocked)
WatchWait(v) ==
    /\ Running
    /\ UNCHANGED mainVars
    /\ wpc[v] = "prewait"
    /\ wpc' = [wpc EXCEPT ![v] = "waiting"]
    /\ UNCHANGED <<st, wlock, readers, shutdown, dropping, histVars>>
    /\ UNCHANGED <<ctlVars, handlerVars, chanVars, wgen, wcur, observed>>

\* Wait returns; cond.L.Unlock(); select { case <-ctx.Done(): return; default: }
\* with the deferred close(ch)
WatchCheck(v) ==
    /\ Running
    /\ UNCHANGED mainVars
    /\ wpc[v] = "woken"
    /\ IF StreamDone(v)
       THEN /\ wpc' = [wpc EXCEPT ![v] = "done"]
            /\ closed' = [closed EXCEPT ![v] = TRUE]
       ELSE /\ wpc' = [wpc EXCEPT ![v] = "rlock"]
            /\ UNCHANGED closed
    /\ UNCHANGED <<st, wlock, readers, shutdown, dropping, histVars, ch>>
    /\ UNCHANGED <<ctlVars, handlerVars, wgen, wcur, observed>>

\* the channel's buffer has room for a send
HasRoom(v) == Len(ch[v]) < 1

\* a comparison that forgets the second if: every wake sends the slide
DiffAlwaysSlide(s, generation, current) ==
    IF s.Generation > generation THEN "refresh" ELSE "slide"

\* what the watcher finds when it compares the State with what it remembers
Diff(s, generation, current) ==
    IF s.Generation > generation THEN "refresh"
    ELSE IF s.Current # current THEN "slide"
    ELSE "none"

\* s.M.RLock() and the comparison with the State; a send that finds the buffer
\* full blocks with the shared lock held
WatchDiff(v) ==
    /\ Running
    /\ UNCHANGED mainVars
    /\ wpc[v] = "rlock"
    /\ CanRLock
    /\ IF Diff(st, wgen[v], wcur[v]) = "refresh"
       THEN /\ UNCHANGED <<wcur, observed>>
            /\ IF HasRoom(v)
               THEN /\ ch' = [ch EXCEPT ![v] = Append(@, ContentReloaded)]
                    /\ closed' = [closed EXCEPT ![v] = TRUE]
                    /\ wpc' = [wpc EXCEPT ![v] = "done"]
                    /\ UNCHANGED readers
               ELSE /\ readers' = readers \cup {<<v, "w">>}
                    /\ wpc' = [wpc EXCEPT ![v] = "sendRefresh"]
                    /\ UNCHANGED chanVars
       ELSE IF Diff(st, wgen[v], wcur[v]) = "slide"
       THEN /\ wcur' = [wcur EXCEPT ![v] = st.Current]
            /\ observed' = [observed EXCEPT ![v] = Append(@, st.Current)]
            /\ UNCHANGED closed
            /\ IF HasRoom(v)
               THEN /\ ch' = [ch EXCEPT ![v] = Append(@, SlideChanged(st.Current))]
                    /\ wpc' = [wpc EXCEPT ![v] = "prewait"]
                    /\ UNCHANGED readers
               ELSE /\ readers' = readers \cup {<<v, "w">>}
                    /\ wpc' = [wpc EXCEPT ![v] = "sendCurrent"]
                    /\ UNCHANGED ch
       ELSE /\ wpc' = [wpc EXCEPT ![v] = "prewait"]
            /\ UNCHANGED <<wcur, observed, readers, chanVars>>
    /\ UNCHANGED <<st, wlock, shutdown, dropping, histVars, wgen>>
    /\ UNCHANGED <<ctlVars, handlerVars>>


\* a blocked send of "refresh" after which the goroutine goes on instead of
\* returning
WatchSendKeepsOpen(v) ==
    /\ Running
    /\ UNCHANGED mainVars
    /\ wpc[v] \in {"sendRefresh", "sendCurrent"}
    /\ HasRoom(v)
    /\ readers' = readers \ {<<v, "w">>}
    /\ IF wpc[v] = "sendRefresh"
       THEN /\ ch' = [ch EXCEPT ![v] = Append(@, ContentReloaded)]
            /\ wpc' = [wpc EXCEPT ![v] = "prewait"]
            /\ UNCHANGED closed
       ELSE /\ ch' = [ch EXCEPT ![v] = Append(@, SlideChanged(wcur[v]))]
            /\ wpc' = [wpc EXCEPT ![v] = "prewait"]
            /\ UNCHANGED closed
    /\ UNCHANGED <<st, wlock, shutdown, dropping, histVars, wgen, wcur, observed>>
    /\ UNCHANGED <<ctlVars, handlerVars>>

\* a blocked ch <- "refresh" or ch <- current completes; s.M.RUnlock()
WatchSend(v) ==
    /\ Running
    /\ UNCHANGED mainVars
    /\ wpc[v] \in {"sendRefresh", "sendCurrent"}
    /\ HasRoom(v)
    /\ readers' = readers \ {<<v, "w">>}
    /\ IF wpc[v] = "sendRefresh"
       THEN /\ ch' = [ch EXCEPT ![v] = Append(@, ContentReloaded)]
            /\ closed' = [closed EXCEPT ![v] = TRUE]
            /\ wpc' = [wpc EXCEPT ![v] = "done"]
       ELSE /\ ch' = [ch EXCEPT ![v] = Append(@, SlideChanged(wcur[v]))]
            /\ wpc' = [wpc EXCEPT ![v] = "prewait"]
            /\ UNCHANGED closed
    /\ UNCHANGED <<st, wlock, shutdown, dropping, histVars, wgen, wcur, observed>>
    /\ UNCHANGED <<ctlVars, handlerVars>>

(***************************************************************************)
(* SlideHandler.ServeHTTP: the handler of one viewer.                      *)
(***************************************************************************)
Paths == {"/", "/other"}

\* a handler that counts the request and starts its EventStream before it
\* looks at the path
ConnectBeforePathCheck(v, path) ==
    /\ Running
    /\ UNCHANGED mainVars
    /\ hpc[v] = "off"
    /\ IF v = 1 THEN TRUE ELSE hpc[v - 1] # "off"
    /\ hpc' = [hpc EXCEPT ![v] = IF path # "/" THEN "notfound" ELSE "snap"]
    /\ connected' = connected + 1
    /\ wpc' = [wpc EXCEPT ![v] = "init"]
    /\ UNCHANGED <<st, wlock, readers, shutdown, dropping, histVars>>
    /\ UNCHANGED <<ctlVars, sctx, snap, delivered, wgen, wcur, observed, chanVars>>

\* a request arrives: the path check, connected++, streamctx, EventStream(...)
\* (viewers are told apart by the order in which they connect)
Connect(v, path) ==
    /\ Running
    /\ UNCHANGED mainVars
    /\ hpc[v] = "off"
    /\ IF v = 1 THEN TRUE ELSE hpc[v - 1] # "off"
    /\ IF path # "/"
       THEN /\ hpc' = [hpc EXCEPT ![v] = "notfound"]
            /\ UNCHANGED <<connected, wpc>>
       ELSE /\ hpc' = [hpc EXCEPT ![v] = "snap"]
            /\ connected' = connected + 1
            /\ wpc' = [wpc EXCEPT ![v] = "init"]
    /\ UNCHANGED <<st, wlock, readers, shutdown, dropping, histVars>>
    /\ UNCHANGED <<ctlVars, sctx, snap, delivered, wgen, wcur, observed, chanVars>>

\* the page a template execution writes: it reads the fields of the State one
\* after the other while it writes, the head of the page (title, style, slide
\* count and position) from the State as it is when it begins, the slides from
\* the State as it is when it ends
Render(begin, end) ==
    [begin EXCEPT !.Slides = end.Slides, !.SlidesRaw = end.SlidesRaw]

\* h.state.M.RLock(); the template begins to execute
ServeLock(v) ==
    /\ Running
    /\ UNCHANGED mainVars
    /\ hpc[v] = "snap"
    /\ CanRLock
    /\ readers' = readers \cup {<<v, "h">>}
    /\ hpc' = [hpc EXCEPT ![v] = "render"]
    /\ snap' = [snap EXCEPT ![v] = <<st>>]
    /\ UNCHANGED <<st, wlock, shutdown, dropping, histVars>>
    /\ UNCHANGED <<ctlVars, sctx, delivered, connected, watcherVars, chanVars>>

\* a handler that returns without the deferred connected--
ReturnKeepsCount(v) ==
    /\ hpc' = [hpc EXCEPT ![v] = "done"]
    /\ sctx' = [sctx EXCEPT ![v] = TRUE]
    /\ UNCHANGED connected

\* the deferred cancel() and connected-- of a handler that returns
Return(v) ==
    /\ hpc' = [hpc EXCEPT ![v] = "done"]
    /\ sctx' = [sctx EXCEPT ![v] = TRUE]
    /\ connected' = connected - 1

\* a handler that answers a failed write by cancelling the context of all
ServeSnapshotCancelsAll(v, err) ==
    /\ Running
    /\ UNCHANGED mainVars
    /\ hpc[v] = "render"
    /\ readers' = readers \ {<<v, "h">>}
    /\ IF err
       THEN /\ Return(v)
            /\ snap' = [snap EXCEPT ![v] = <<>>]
            /\ shutdown' = TRUE
       ELSE /\ snap' = [snap EXCEPT ![v] = <<Render(snap[v][1], st)>>]
            /\ hpc' = [hpc EXCEPT ![v] = "loop"]
            /\ UNCHANGED <<sctx, connected, shutdown>>
    /\ UNCHANGED <<st, wlock, dropping, histVars, delivered>>
    /\ UNCHANGED <<ctlVars, watcherVars, chanVars>>

\* templates.ExecuteTemplate(w, "main.html", h.state) ends, with an error (the
\* handler returns) or without; h.state.M.RUnlock()
ServeSnapshot(v, err) ==
    /\ Running
    /\ UNCHANGED mainVars
    /\ hpc[v] = "render"
    /\ readers' = readers \ {<<v, "h">>}
    /\ IF err
       THEN /\ Return(v)
            /\ snap' = [snap EXCEPT ![v] = <<>>]
       ELSE /\ snap' = [snap EXCEPT ![v] = <<Render(snap[v][1], st)>>]
            /\ hpc' = [hpc EXCEPT ![v] = "loop"]
            /\ UNCHANGED <<sctx, connected>>
    /\ UNCHANGED <<st, wlock, shutdown, dropping, histVars, delivered>>
    /\ UNCHANGED <<ctlVars, watcherVars, chanVars>>

\* case <-h.ctx.Done(): the trailer is written, the handler returns
ServeShutdown(v) ==
    /\ Running
    /\ UNCHANGED mainVars
    /\ hpc[v] = "loop"
    /\ shutdown
    /\ delivered' = [delivered EXCEPT ![v] = Append(@, Trailer)]
    /\ Return(v)
    /\ UNCHANGED <<st, wlock, readers, shutdown, dropping, histVars, snap>>
    /\ UNCHANGED <<ctlVars, watcherVars, chanVars>>

\* case e, more := <-events with an event: an int is written as a slide change,
\* "refresh" ends the handler
ServeEvent(v) ==
    /\ Running
    /\ UNCHANGED mainVars
    /\ hpc[v] = "loop"
    /\ ch[v] # <<>>
    /\ ch' = [ch EXCEPT ![v] = Tail(@)]
    /\ delivered' = [delivered EXCEPT ![v] = Append(@, Head(ch[v]))]
    /\ IF Head(ch[v]).kind = "refresh"
       THEN Return(v)
       ELSE UNCHANGED <<hpc, sctx, connected>>
    /\ UNCHANGED <<st, wlock, readers, shutdown, dropping, histVars, snap, closed>>
    /\ UNCHANGED <<ctlVars, watcherVars>>

\* case e, more := <-events with !more: the channel is closed and drained
ServeClosed(v) ==
    /\ Running
    /\ UNCHANGED mainVars
    /\ hpc[v] = "loop"
    /\ ch[v] = <<>>
    /\ closed[v]
    /\ Return(v)
    /\ UNCHANGED <<st, wlock, readers, shutdown, dropping, histVars, snap, delivered>>
    /\ UNCHANGED <<ctlVars, watcherVars, chanVars>>

(***************************************************************************)
(* The cli program (src/main.go:1-368): its Reload, handler and controller. *)
(* GotoSlide and EventStream are the same code as above.                   *)
(***************************************************************************)
\* loadSlides of the cli program: the title goes into the first slide's text
loadSlidesV1(file) ==
    IF ~file.ok THEN NoLoad
    ELSE
      LET pieces == Split(TrimSpace(file.content))
          slides == [i \in 1..Len(pieces) |->
                       [title |-> IF i = 1 /\ pieces[i] # <<>> /\ Head(pieces[i]) \in Headings
                                  THEN Head(pieces[i]) ELSE "",
                        body |-> pieces[i]]]
      IN  [err |-> FALSE, title |-> "", slides |-> slides, raw |-> <<>>, style |-> ""]

\* State.Reload of the cli program before the lock
ReloadLoadV1(file, stylesheet) ==
    LET l == loadSlidesV1(file)
        u == loadUserStyle(stylesheet)
    IN  IF l.err THEN NoLoad
        ELSE IF Len(l.slides) < 1 THEN NoLoad
        ELSE IF u.err THEN NoLoad
        ELSE [l EXCEPT !.style = u.style]

\* State.Reload of the cli program under the exclusive lock: no Generation++
ReloadCommitV1(s, l) ==
    LET total == Len(l.slides)
    IN  [s EXCEPT !.Total = total,
                  !.Current = IF s.Current > total THEN total ELSE s.Current,
                  !.UserStyle = l.style,
                  !.Slides = l.slides]

InitV1 == InitWith(ReloadCommitV1(ZeroState, ReloadLoadV1(ThreeSlides, "css")))

\* case "t", "j": GotoSlide(Current + 1); case "n", "k": GotoSlide(Current - 1)
cliNav(key, max) ==
    /\ Running
    /\ UNCHANGED mainVars
    /\ cpc = "idle"
    /\ ncmd < max
    /\ key \in {"j", "k"}
    /\ cpc' = "lock"
    /\ wlock' = "pending"
    /\ creq' = [op |-> "goto",
                slide |-> IF key = "j" THEN st.Current + 1 ELSE st.Current - 1,
                load |-> NoLoad]
    /\ last' = Record(IF key = "j" THEN "Next" ELSE "Prev",
                       IF key = "j" THEN st.Current + 1 ELSE st.Current - 1, TRUE)
    /\ ncmd' = ncmd + 1
    /\ UNCHANGED <<st, readers, shutdown, dropping, histVars>>
    /\ UNCHANGED <<handlerVars, watcherVars, chanVars>>

\* case "r": state.Generation++ (without the lock), then state.Reload(...): an
\* error is logged and the loop continues
cliReload(file, stylesheet, max) ==
    /\ Running
    /\ UNCHANGED mainVars
    /\ cpc = "idle"
    /\ ncmd < max
    /\ st' = [st EXCEPT !.Generation = @ + 1]
    /\ LET l == ReloadLoadV1(file, stylesheet)
       IN  IF l.err
           THEN /\ last' = Record("Reload", 0, FALSE)
                /\ UNCHANGED <<cpc, creq, wlock>>
           ELSE /\ cpc' = "lock"
                /\ wlock' = "pending"
                /\ creq' = [op |-> "reload", slide |-> 0, load |-> l]
                /\ last' = Record("Reload", 0, TRUE)
    /\ ncmd' = ncmd + 1
    /\ UNCHANGED <<readers, shutdown, dropping, histVars>>
    /\ UNCHANGED <<handlerVars, watcherVars, chanVars>>

\* the locked part of the cli program's Reload
ReloadBodyV1 ==
    /\ Running
    /\ UNCHANGED mainVars
    /\ cpc = "lock"
    /\ CanLock
    /\ creq.op = "reload"
    /\ st' = ReloadCommitV1(st, creq.load)
    /\ idxHist' = Moved(ReloadCommitV1(st, creq.load))
    /\ nreload' = nreload + 1
    /\ wlock' = "free"
    /\ cpc' = "bcast"
    /\ UNCHANGED <<readers, creq, last, ncmd, shutdown, dropping>>
    /\ UNCHANGED <<handlerVars, watcherVars, chanVars>>

\* any other key: the switch has no case for it, cond.Broadcast() follows
cliOther(max) ==
    /\ Running
    /\ UNCHANGED mainVars
    /\ cpc = "idle"
    /\ ncmd < max
    /\ cpc' = "bcast"
    /\ last' = Record("Other", 0, TRUE)
    /\ ncmd' = ncmd + 1
    /\ UNCHANGED <<st, wlock, readers, creq, shutdown, dropping, histVars>>
    /\ UNCHANGED <<handlerVars, watcherVars, chanVars>>

\* cond.Broadcast() at the end of the loop's body
cliBroadcast ==
    /\ Running
    /\ UNCHANGED mainVars
    /\ cpc = "bcast"
    /\ Broadcast
    /\ cpc' = "idle"
    /\ creq' = NoReq
    /\ UNCHANGED <<st, wlock, readers, last, ncmd, shutdown, dropping, histVars>>
    /\ UNCHANGED <<handlerVars, wgen, wcur, observed, chanVars>>

\* case "q" (and io.EOF): shutdown(), and the loop is left without a broadcast
cliQuit(max) ==
    /\ Running
    /\ UNCHANGED mainVars
    /\ cpc = "idle"
    /\ ncmd < max
    /\ shutdown' = TRUE
    /\ cpc' = "exit"
    /\ last' = Record("Quit", 0, TRUE)
    /\ ncmd' = ncmd + 1
    /\ UNCHANGED <<st, wlock, readers, creq, dropping, histVars>>
    /\ UNCHANGED <<handlerVars, watcherVars, chanVars>>

\* ServeHTTP of the cli program: streamctx and EventStream(...), no counter
ConnectV1(v) ==
    /\ Running
    /\ UNCHANGED mainVars
    /\ hpc[v] = "off"
    /\ hpc' = [hpc EXCEPT ![v] = "snap"]
    /\ wpc' = [wpc EXCEPT ![v] = "init"]
    /\ UNCHANGED <<st, wlock, readers, shutdown, dropping, histVars>>
    /\ UNCHANGED <<ctlVars, sctx, snap, delivered, connected>>
    /\ UNCHANGED <<wgen, wcur, observed, chanVars>>

\* the header, the stylesheet and the slides are written; RUnlock
ServeSnapshotV1(v) ==
    /\ Running
    /\ UNCHANGED mainVars
    /\ hpc[v] = "render"
    /\ readers' = readers \ {<<v, "h">>}
    /\ snap' = [snap EXCEPT ![v] = <<Render(snap[v][1], st)>>]
    /\ hpc' = [hpc EXCEPT ![v] = "loop"]
    /\ UNCHANGED <<st, wlock, shutdown, dropping, histVars, delivered, sctx, connected>>
    /\ UNCHANGED <<ctlVars, watcherVars, chanVars>>

\* the deferred cancel() of a handler that returns
ReturnV1(v) ==
    /\ hpc' = [hpc EXCEPT ![v] = "done"]
    /\ sctx' = [sctx EXCEPT ![v] = TRUE]
    /\ UNCHANGED connected

\* case <-h.ctx.Done(): return
ServeShutdownV1(v) ==
    /\ Running
    /\ UNCHANGED mainVars
    /\ hpc[v] = "loop"
    /\ shutdown
    /\ ReturnV1(v)
    /\ UNCHANGED <<st, wlock, readers, shutdown, dropping, histVars, snap, delivered>>
    /\ UNCHANGED <<ctlVars, watcherVars, chanVars>>

\* case e, more := <-events: an int is written as a style, "refresh" as a
\* script that reloads the page, and then the handler returns
ServeEventV1(v) ==
    /\ Running
    /\ UNCHANGED mainVars
    /\ hpc[v] = "loop"
    /\ ch[v] # <<>>
    /\ ch' = [ch EXCEPT ![v] = Tail(@)]
    /\ delivered' = [delivered EXCEPT ![v] = Append(@, Head(ch[v]))]
    /\ IF Head(ch[v]).kind = "refresh"
       THEN ReturnV1(v)
       ELSE UNCHANGED <<hpc, sctx, connected>>
    /\ UNCHANGED <<st, wlock, readers, shutdown, dropping, histVars, snap, closed>>
    /\ UNCHANGED <<ctlVars, watcherVars>>

\* case e, more := <-events with !more
ServeClosedV1(v) ==
    /\ Running
    /\ UNCHANGED mainVars
    /\ hpc[v] = "loop"
    /\ ch[v] = <<>>
    /\ closed[v]
    /\ ReturnV1(v)
    /\ UNCHANGED <<st, wlock, readers, shutdown, dropping, histVars, snap, delivered>>
    /\ UNCHANGED <<ctlVars, watcherVars, chanVars>>

(***************************************************************************)
(* The specifications.                                                     *)
(***************************************************************************)
Controller(max) ==
    \/ \E cmd \in NavCmds : tuiNav(cmd, max)
    \/ \E f \in Files, s \in Styles : tuiReload(f, s, max)
    \/ GotoSlideBody
    \/ ReloadBody
    \/ tuiBroadcast
    \/ tuiQuit(max)
    \/ tuiQuitBroadcast
    \/ \E cmd \in {"Redraw", "Unknown"} : tuiOther(cmd, max)

Watcher(v) ==
    \/ WatchInit(v)
    \/ WatchWait(v)
    \/ WatchCheck(v)
    \/ WatchDiff(v)
    \/ WatchSend(v)

Handler(v) ==
    \/ \E path \in Paths : Connect(v, path)
    \/ ServeLock(v)
    \/ \E err \in BOOLEAN : ServeSnapshot(v, err)
    \/ ServeShutdown(v)
    \/ ServeEvent(v)
    \/ ServeClosed(v)

\* one viewer
Next ==
    \/ Controller(MaxCmds)
    \/ \E v \in Solo : Watcher(v)
    \/ \E v \in Solo : Handler(v)

Spec == Init /\ [][Next]_vars

Main ==
    \/ MainSignal
    \/ MainCtxDone
    \/ MainCheck
    \/ MainSleep
    \/ MainShutdown

\* one viewer, with main's way out
NextShut ==
    \/ Controller(MaxShutCmds)
    \/ \E v \in Solo : Watcher(v)
    \/ \E v \in Solo : Handler(v)
    \/ Main

ShutSpec == Init /\ [][NextShut]_vars

\* main was started with -output or without it
InitOutput ==
    \E pos \in {"serve", "dump"} : StartWith(InitialState(ThreeSlides), pos)

\* one viewer, or no server and a Dump
NextOutput ==
    \/ Next
    \/ DumpLock
    \/ \E err \in BOOLEAN : DumpRender(err)
    \/ \E err \in BOOLEAN : DumpTrailer(err)
    \/ DumpExit

OutputSpec == InitOutput /\ [][NextOutput]_vars

\* the commands read while two viewers are followed
PairCmds == {"Next", "Last"}

\* two viewers; the controller moves forward and quits
NextPair ==
    \/ \E cmd \in PairCmds : tuiNav(cmd, MaxPairCmds)
    \/ GotoSlideBody
    \/ tuiBroadcast
    \/ tuiQuit(MaxPairCmds)
    \/ tuiQuitBroadcast
    \/ \E v \in Viewers : Watcher(v)
    \/ \E v \in Viewers : Handler(v)

\* what a handler does once its request has arrived
Serving(v) ==
    \/ ServeLock(v)
    \/ \E err \in BOOLEAN : ServeSnapshot(v, err)
    \/ ServeShutdown(v)
    \/ ServeEvent(v)
    \/ ServeClosed(v)

\* what the controller does once it has read a command
Carrying == GotoSlideBody \/ ReloadBody \/ tuiBroadcast \/ tuiQuitBroadcast

\* Go schedules every goroutine that can run: a watcher, a handler and the
\* controller each take their next step unless it is blocked.  No command and
\* no request has to arrive.
Fairness ==
    /\ WF_vars(Carrying)
    /\ \A v \in Viewers : WF_vars(Watcher(v))
    /\ \A v \in Viewers : WF_vars(Serving(v))

\* one viewer, every goroutine scheduled
FairSpec == Spec /\ Fairness

PairSpec == Init /\ [][NextPair]_vars /\ Fairness

\* the controller alone, navigation only, four slides
NextNav ==
    \/ \E cmd \in NavCmds : tuiNav(cmd, MaxNavCmds)
    \/ GotoSlideBody
    \/ tuiBroadcast

InitNav == InitWith(InitialState(FourSlides))

NavSpec == InitNav /\ [][NextNav]_vars

\* the cli program, one viewer
ControllerV1(max) ==
    \/ \E key \in {"j", "k"} : cliNav(key, max)
    \/ \E f \in Files, s \in Styles : cliReload(f, s, max)
    \/ GotoSlideBody
    \/ ReloadBodyV1
    \/ cliOther(max)
    \/ cliBroadcast
    \/ cliQuit(max)

HandlerV1(v) ==
    \/ ConnectV1(v)
    \/ ServeLock(v)
    \/ ServeSnapshotV1(v)
    \/ ServeShutdownV1(v)
    \/ ServeEventV1(v)
    \/ ServeClosedV1(v)

NextCli ==
    \/ ControllerV1(MaxCliCmds)
    \/ \E v \in Solo : Watcher(v)
    \/ \E v \in Solo : HandlerV1(v)

CliSpec == InitV1 /\ [][NextCli]_vars

(***************************************************************************)
(* Properties.                                                             *)
(***************************************************************************)
\* how far past either end of the presentation GotoSlide's argument is tried
Overshoot == 2

Min(a, b) == IF a < b THEN a ELSE b

Max(a, b) == IF a > b THEN a ELSE b

\* n brought into 1..t
Clamp(n, t) == Max(1, Min(n, t))

\* the last command's mutation is in the State
Committed == cpc \in {"bcast", "idle"}

\* the load of these inputs fails
LoadFails(f, s) == loadSlides(f).err \/ loadUserStyle(s).err

\* the slide indices among a viewer's events, in order
RECURSIVE SlideIdx(_)
SlideIdx(events) ==
    IF events = <<>> THEN <<>>
    ELSE IF Head(events).kind = "slide"
         THEN <<Head(events).idx>> \o SlideIdx(Tail(events))
         ELSE SlideIdx(Tail(events))

\* a can be got from b by leaving elements out
RECURSIVE IsSubseq(_, _)
IsSubseq(a, b) ==
    IF a = <<>> THEN TRUE
    ELSE IF b = <<>> THEN FALSE
    ELSE IF Head(a) = Head(b) THEN IsSubseq(Tail(a), Tail(b))
    ELSE IsSubseq(a, Tail(b))

Refreshes(v) == Len(SelectSeq(Emitted(v), LAMBDA e : e.kind = "refresh"))

C1_Pure ==
    \A n \in (0 - Overshoot)..(st.Total + Overshoot) :
        LET s1 == GotoSlide(st, n)
        IN  /\ s1.Current = Clamp(n, st.Total)
            /\ 1 <= s1.Current /\ s1.Current <= st.Total
            /\ s1 = [st EXCEPT !.Current = s1.Current]
            /\ GotoSlide(s1, n) = s1

C1_Step ==
    GotoSlideBody =>
        /\ st' = [st EXCEPT !.Current = Clamp(creq.slide, st.Total)]
        /\ UNCHANGED <<readers, shutdown, dropping, connected, nreload>>
        /\ UNCHANGED <<handlerVars, watcherVars, chanVars>>

\* C1: with Total >= 1, GotoSlide(n) leaves Current = 1 for n < 1, Total for
\* n > Total and n otherwise, changes no other field of the State (and nothing
\* of a viewer), and a second GotoSlide(n) changes nothing at all.
C1_GotoSlideClamps == [](st.Total >= 1 => C1_Pure) /\ [][C1_Step]_vars

\* the controller has just made the same out-of-range call a second time
C1_Witness ==
    /\ cpc = "bcast"
    /\ last.cmd = "Next" /\ last.n = 2
    /\ last.arg = st.Total + 1
    /\ last.pre = st

\* C2: after the initial load, whatever GotoSlide and Reload calls follow,
\* 1 <= Current <= Total and Slides and SlidesRaw both have Total elements.
C2_IndexInRange ==
    /\ 1 <= st.Current /\ st.Current <= st.Total
    /\ Len(st.Slides) = st.Total
    /\ Len(st.SlidesRaw) = st.Total

\* a Reload has just made the presentation shorter than the position
C2_Witness ==
    /\ cpc = "bcast"
    /\ last.cmd = "Reload" /\ last.ok
    /\ last.pre.Current > st.Total
    /\ st.Current = st.Total

C3_Step ==
    \A f \in Files, s \in Styles :
        (tuiReload(f, s, MaxCmds) /\ LoadFails(f, s)) =>
            UNCHANGED <<st, wlock, readers, cpc, creq, histVars>>

\* C3: a Reload that fails changes no field of the State and never takes the
\* lock, so no reader sees anything but the old State.
C3_FailedReloadKeepsState ==
    /\ [][C3_Step]_vars
    /\ []((last.cmd = "Reload" /\ ~last.ok) => (st = last.pre /\ wlock = "free"))

\* a Reload has just failed
C3_Witness ==
    /\ last.cmd = "Reload" /\ ~last.ok
    /\ st = last.pre
    /\ hpc[1] = "loop"

\* C4: a Reload command whose load fails leaves the State as it was and is not
\* followed by a broadcast, and as long as no Reload has succeeded no viewer's
\* EventStream sends "refresh".
C4_FailedReloadSilent ==
    /\ (last.cmd = "Reload" /\ ~last.ok) => (st = last.pre /\ cpc = "idle")
    /\ nreload = 0 => \A v \in Viewers : Refreshes(v) = 0

\* C5: Generation grows by one in the step in which a Reload replaces the
\* content and is left alone by every other step.
C5_GenerationCountsReloads ==
    [][st'.Generation - st.Generation = nreload' - nreload]_vars

C8_Viewer(v) ==
    /\ IsSubseq(observed[v], idxHist)
    /\ SlideIdx(Emitted(v)) =
          IF observed[v] = <<>> THEN <<>>
          ELSE IF wpc[v] = "sendCurrent"
               THEN SubSeq(observed[v], 2, Len(observed[v]) - 1)
               ELSE Tail(observed[v])
    /\ IsSubseq(SlideIdx(delivered[v]), idxHist)

\* C8: the slides a viewer is sent are values Current has held, in the order
\* in which it held them, each value of Current giving at most one event: two
\* moves made before the watcher looks again give one event, for the later
\* slide, and an earlier slide is never sent after a later one.
C8_Coalescing == \A v \in Viewers : C8_Viewer(v)

\* a watcher that remembered slide 1 slept through 2 and was sent 3 only
C8_Witness ==
    /\ idxHist = <<1, 2, 3>>
    /\ observed[1] = <<1, 3>>
    /\ delivered[1] = <<SlideChanged(3)>>

C10_After ==
    (Committed /\ last.cmd \in NavCmds) =>
        /\ last.cmd = "Next" =>
              /\ st.Current = Min(last.pre.Current + 1, st.Total)
              /\ st.Current = Min(last.from + last.n, st.Total)
        /\ last.cmd = "Prev" =>
              /\ st.Current = Max(last.pre.Current - 1, 1)
              /\ st.Current = Max(last.from - last.n, 1)
        /\ last.cmd = "First" => st.Current = 1
        /\ last.cmd = "Last" => st.Current = st.Total

C10_Scenario ==
    (Committed /\ st.Total = 4) =>
        /\ (last.cmd = "Next" /\ last.from = 1 /\ last.n \in {3, 4}) => st.Current = 4
        /\ (last.cmd = "Prev" /\ last.from = 4 /\ last.n = 5) => st.Current = 1

C10_Broadcast ==
    /\ (cpc = "lock" /\ cpc' # "lock") => cpc' = "bcast"
    /\ (cpc = "bcast" /\ cpc' # "bcast") =>
          (cpc' = "idle" /\ \A v \in Waiters : wpc'[v] = "woken")

\* C10: Next moves to min(c+1, T), Prev to max(c-1, 1), First to 1, Last to T,
\* and each is followed by a broadcast whether or not the position changed;
\* with four slides, three Next from 1 give 4, a fourth leaves 4, five Prev
\* from 4 give 1.
C10_Navigation == [](C10_After /\ C10_Scenario) /\ [][C10_Broadcast]_vars

\* four commands have brought the position from 1 to 4, five Prev back to 1
C10_Witness ==
    /\ cpc = "idle"
    /\ st.Total = 4
    /\ idxHist = <<1, 2, 3, 4, 3, 2, 1>>
    /\ last.cmd = "Prev" /\ last.n = 5 /\ last.from = 4
    /\ st.Current = 1

\* the slide a viewer's page shows: the last one it was sent, else the one of
\* the page it was served
Told(v) ==
    LET idx == SlideIdx(delivered[v])
    IN  IF idx # <<>> THEN idx[Len(idx)]
        ELSE IF snap[v] # <<>> THEN snap[v][1].Current
        ELSE 0

\* the page of viewer v was served before the last successful Reload, whose
\* broadcast is over, and k commands have been read
C6_Stale(v, k) ==
    /\ ncmd = k
    /\ cpc = "idle"
    /\ ~shutdown
    /\ last.cmd = "Reload" /\ last.ok
    /\ hpc[v] = "loop"
    /\ snap[v][1].Generation < st.Generation

\* viewer v was sent one ContentReloaded and its stream is over
C6_Reloaded(v) ==
    /\ hpc[v] = "done"
    /\ Len(SelectSeq(delivered[v], LAMBDA e : e.kind = "refresh")) = 1

\* C6: once a successful Reload has been broadcast, every viewer connected at
\* that time is eventually sent exactly one ContentReloaded and its stream
\* ends, unless another command is read first.
C6_ReloadReachesViewers ==
    \A v \in Solo : \A k \in 1..MaxCmds :
        C6_Stale(v, k) ~> (C6_Reloaded(v) \/ ncmd > k)

\* viewer v shows another slide than the current one of the same generation,
\* the broadcast of the move is over, and k commands have been read
C7_Behind(v, k) ==
    /\ ncmd = k
    /\ cpc = "idle"
    /\ ~shutdown
    /\ last.cmd \in NavCmds
    /\ hpc[v] = "loop"
    /\ wpc[v] \notin {"none", "done"}
    /\ wgen[v] = st.Generation
    /\ snap[v][1].Generation = st.Generation
    /\ Told(v) # st.Current

\* C7: once a move has been broadcast, a connected viewer that shows another
\* slide of the same generation is eventually sent the current slide, unless
\* another command is read first, wherever its watcher was at the broadcast.
C7_NoLostWake ==
    \A v \in Solo : \A k \in 1..MaxCmds :
        C7_Behind(v, k) ~> (Told(v) = st.Current \/ ncmd > k)

\* the only command so far is Last, read at slide 1
C9_OneLast == ncmd = 1 /\ last.cmd = "Last" /\ last.pre.Current = 1

\* both viewers are in cond.Wait() remembering slide 1 when GotoSlide(3) is
\* about to be broadcast
C9_BothWaiting ==
    /\ C9_OneLast
    /\ cpc = "bcast"
    /\ \A v \in Viewers :
          /\ wpc[v] = "waiting" /\ wcur[v] = 1
          /\ hpc[v] = "loop" /\ delivered[v] = <<>>

C9_Only3 == \A v \in Viewers : Emitted(v) \in {<<>>, <<SlideChanged(3)>>}

\* a broadcast leaves no goroutine in cond.Wait() that was in it
C9_WakeAll ==
    (tuiBroadcast \/ tuiQuitBroadcast) => \A v \in Waiters : wpc'[v] = "woken"

\* C9: with two viewers in cond.Wait() at slide 1, GotoSlide(3) and its
\* broadcast bring each of them exactly one SlideChanged(3) (unless another
\* command is read first), and no event for another slide.
C9_BroadcastWakesAll ==
    /\ [][C9_WakeAll]_vars
    /\ [](C9_OneLast => C9_Only3)
    /\ C9_BothWaiting ~>
          ((\A v \in Viewers : delivered[v] = <<SlideChanged(3)>>) \/ ncmd > 1)

\* both viewers were waiting at slide 1 and both have been sent slide 3
C9_Witness ==
    /\ C9_OneLast
    /\ cpc = "idle"
    /\ \A v \in Viewers :
          /\ observed[v] = <<1, 3>>
          /\ delivered[v] = <<SlideChanged(3)>>
          /\ wpc[v] = "waiting"

\* the title and the slides of s come from one load of one file
OneLoad(s) ==
    \E f \in Files :
        LET l == loadSlides(f)
        IN  /\ ~l.err
            /\ s.Title = l.title
            /\ s.Slides = l.slides
            /\ s.SlidesRaw = l.raw

\* a finished page shows one State
C11_Whole(v) ==
    (snap[v] # <<>> /\ hpc[v] # "render") =>
        /\ snap[v][1].Total = Len(snap[v][1].Slides)
        /\ snap[v][1].Current <= snap[v][1].Total
        /\ OneLoad(snap[v][1])

\* the State stands still while a page is rendered, and the finished page is
\* the State of that moment
C11_Step(v) ==
    /\ hpc[v] = "render" => st' = st
    /\ (hpc[v] = "render" /\ hpc'[v] = "loop") => snap'[v] = <<st>>

\* C11: the page a new viewer is served is rendered inside one shared lock:
\* no GotoSlide or Reload changes the State while it is rendered, so its
\* position, slide count, title, slides and style are those of one committed
\* State, never of two reloads, and its slide count is the number of slides.
C11_SnapshotWhole ==
    /\ [](\A v \in Viewers : C11_Whole(v))
    /\ [][\A v \in Viewers : C11_Step(v)]_vars

\* a page was finished while a Reload with other slides waited for the lock
C11_Witness ==
    /\ hpc[1] = "loop"
    /\ cpc = "lock" /\ creq.op = "reload"
    /\ creq.load.slides # st.Slides
    /\ snap[1] = <<st>>

\* the mutation the controller carries is in the State
C12_Applied ==
    /\ creq.op = "goto" => st.Current = Clamp(creq.slide, st.Total)
    /\ creq.op = "reload" =>
          /\ st.Slides = creq.load.slides
          /\ st.Generation = last.pre.Generation + 1

\* a goroutine leaves cond.Wait() only in a broadcast that follows the commit
\* and the release of the exclusive lock
C12_Wake ==
    (\E v \in Viewers : wpc[v] = "waiting" /\ wpc'[v] = "woken") =>
        /\ wlock = "free"
        /\ cpc \in {"bcast", "qbcast"}
        /\ cpc = "bcast" => C12_Applied

\* what a woken watcher is about to read holds the last command's mutation
C12_Fresh(v) ==
    (wpc[v] \in {"woken", "rlock"} /\ cpc = "idle") =>
        /\ last.cmd \in NavCmds => st.Current = Clamp(last.arg, st.Total)
        /\ (last.cmd = "Reload" /\ last.ok) =>
              /\ st.Generation = last.pre.Generation + 1
              /\ st.Generation >= wgen[v]

\* C12: a broadcast is issued only after its mutation is committed and the
\* exclusive lock is released, so the Generation and Current a watcher reads
\* after a broadcast woke it are at least as new as that mutation.
C12_BroadcastAfterCommit ==
    /\ [][C12_Wake]_vars
    /\ [](cpc = "bcast" => (wlock = "free" /\ C12_Applied))
    /\ [](\A v \in Viewers : C12_Fresh(v))

\* the watcher, woken by the broadcast of GotoSlide(3), is about to read 3
C12_Witness ==
    /\ wpc[1] = "rlock"
    /\ cpc = "idle"
    /\ last.cmd = "Last"
    /\ wcur[1] = 1
    /\ st.Current = 3

\* C13: once a viewer's handler has returned (its streamctx is cancelled), its
\* EventStream goroutine eventually ends, without another command being read:
\* no watcher stays in cond.Wait() for good.
C13_WatcherEnds ==
    \A v \in Solo : \A k \in 0..MaxCmds :
        (hpc[v] = "done" /\ ncmd = k) ~> (wpc[v] = "done" \/ ncmd > k)

\* a handler that was in its loop at Quit and leaves it has written the trailer
C14_Step(v) ==
    (last.cmd = "Quit" /\ v \in last.loop /\ hpc[v] = "loop" /\ hpc'[v] = "done") =>
        (delivered'[v] # <<>> /\ delivered'[v][Len(delivered'[v])] = Trailer)

\* C14: a handler that is in its loop when Quit starts the shutdown does not
\* leave it without having written the trailer, whichever of ctx.Done() and
\* the closed event channel its select takes.
C14_TrailerBeforeEnd == [][\A v \in Viewers : C14_Step(v)]_vars

\* Quit copies the counter of connected viewers into dropping
C15_Quit ==
    (cpc = "idle" /\ cpc' = "qbcast") =>
        (dropping' = connected /\ last'.arg = connected /\ shutdown')

\* main, woken by Quit, sleeps exactly if the counter was not zero at Quit
C15_Step ==
    (mpc = "check" /\ mpc' # "check" /\ ~sig) =>
        /\ last.cmd = "Quit"
        /\ mpc' = IF last.arg > 0 THEN "grace" ELSE "closing"

\* C15: after Quit, main waits the grace period before it closes the listener
\* if and only if the counter of connected viewers was not zero when Quit was
\* read: with no viewer it closes at once, with one or more it waits.
C15_GraceIffViewers ==
    /\ [][C15_Quit /\ C15_Step]_vars
    /\ []((mpc = "grace" /\ ~sig) => (last.cmd = "Quit" /\ last.arg > 0))

\* Quit was read with one viewer connected and main is in its grace period
C15_Witness ==
    /\ mpc = "grace"
    /\ ~sig
    /\ last.cmd = "Quit"
    /\ last.arg = 1

\* a signal that starts the shutdown does what Quit does, and once the
\* shutdown has begun no command is read and the State is left alone
C16_Step ==
    /\ (~sig /\ sig' /\ ~shutdown) => (shutdown' /\ dropping' = connected)
    /\ shutdown => UNCHANGED <<st, ncmd>>

\* C16: a termination signal has the effects of Quit: the shutdown begins, the
\* counter of connected viewers decides about the grace period, and the
\* controller reads no further command and changes the State no more.
C16_SignalLikeQuit == [][C16_Step]_vars

\* the handlers that took a request for "/" and have not returned
Live == {v \in Viewers : hpc[v] \in {"snap", "render", "loop"}}

\* the counter moves by one with each handler that comes or goes
C17_Step ==
    connected' - connected = Cardinality(Live') - Cardinality(Live)

\* C17: the counter of connected viewers is the number of handlers that took a
\* request for "/" and have not returned, whichever way a handler ends, and it
\* is never negative.
C17_CounterIsLive ==
    /\ [](connected = Cardinality(Live) /\ connected >= 0)
    /\ [][C17_Step]_vars

\* two handlers were counted; one ended with the trailer, one with a failed
\* snapshot, and the counter is back at zero
C17_Witness ==
    /\ connected = 0
    /\ hpc = <<"done", "done">>
    /\ delivered[1] = <<Trailer>>
    /\ snap[2] = <<>>

\* a request for another path leaves everything but its handler alone
C18_Step(v) ==
    (hpc[v] = "off" /\ hpc'[v] = "notfound") =>
        UNCHANGED <<st, wlock, readers, shutdown, dropping, connected, sctx, snap,
                    delivered, wpc, wgen, wcur, ch, closed>>

C18_Nothing(v) ==
    hpc[v] = "notfound" =>
        /\ wpc[v] = "none"
        /\ snap[v] = <<>>
        /\ Emitted(v) = <<>>
        /\ v \notin Live

\* C18: a request whose path is not "/" is answered not found and nothing
\* else happens: no page is rendered, no EventStream is started, the counter
\* of connected viewers stays as it is.
C18_NotFound ==
    /\ [][\A v \in Viewers : C18_Step(v)]_vars
    /\ [](\A v \in Viewers : C18_Nothing(v))

\* a request for another path was answered while the controller moved on
C18_Witness ==
    /\ hpc[1] = "notfound"
    /\ connected = 0
    /\ wpc[1] = "none"
    /\ ncmd > 0

\* the producer of a viewer's events waits for room in the buffer
Blocked(v) == wpc[v] \in {"sendRefresh", "sendCurrent"}

\* a slide received by the handler is the newest one its watcher produced
C19_Step(v) ==
    (hpc[v] = "loop" /\ ch[v] # <<>> /\ ch'[v] = Tail(ch[v])
        /\ Head(ch[v]).kind = "slide") =>
        Head(ch[v]).idx = wcur[v]

\* C19: a viewer's buffer holds at most one event and the latest value wins: a
\* new index replaces the pending one, the producer never waits for the
\* consumer, and the consumer only ever receives the most recent index.
C19_LatestValueWins ==
    /\ [](\A v \in Viewers : Len(ch[v]) <= 1 /\ ~Blocked(v))
    /\ [][\A v \in Viewers : C19_Step(v)]_vars

\* GotoSlide or Reload waits in Lock() behind a watcher that waits on its send
C20_WriterHeldUp ==
    cpc = "lock" /\ \E v \in Viewers : Blocked(v) /\ <<v, "w">> \in readers

\* C20: the lock on the State is held across reads and updates of fields only:
\* no watcher waits on a channel send with the shared lock held, so a slow
\* viewer never keeps GotoSlide or Reload from the exclusive lock.
C20_LockScope ==
    /\ \A v \in Viewers : <<v, "w">> \notin readers
    /\ ~C20_WriterHeldUp

\* what a viewer's EventStream has sent so far
Events(v) == SelectSeq(Emitted(v), LAMBDA e : e.kind # "trailer")

\* "refresh" is sent once, is the last event and ends the goroutine
C21_Last(v) ==
    /\ Refreshes(v) <= 1
    /\ Refreshes(v) = 1 =>
          /\ Events(v)[Len(Events(v))] = ContentReloaded
          /\ closed[v]
          /\ wpc[v] = "done"

\* a closed channel is sent nothing; a channel is closed in the step that
\* sends "refresh" or by a goroutine that found its context cancelled
C21_Step(v) ==
    /\ closed[v] => (closed'[v] /\ Events(v)' = Events(v))
    /\ (~closed[v] /\ closed'[v]) =>
          \/ Events(v)' = Append(Events(v), ContentReloaded)
          \/ (StreamDone(v) /\ wpc[v] = "woken" /\ Events(v)' = Events(v))

\* C21: an EventStream sends ContentReloaded at most once, sends nothing after
\* it and closes its channel with it; its channel is closed only with a
\* ContentReloaded or when it has found its context cancelled.
C21_RefreshEndsStream ==
    /\ [](\A v \in Viewers : C21_Last(v))
    /\ [][\A v \in Viewers : C21_Step(v)]_vars

\* a stream that sent a slide and then "refresh", closed with it pending
C21_Witness ==
    /\ closed[1]
    /\ ~StreamDone(1)
    /\ delivered[1] # <<>>
    /\ delivered[1][1].kind = "slide"
    /\ ch[1] = <<ContentReloaded>>

\* the broadcast of Quit comes after shutdown() and wakes every waiter
C22_Order ==
    (cpc = "qbcast" /\ cpc' # "qbcast") =>
        /\ shutdown
        /\ cpc' = "exit"
        /\ \A v \in Waiters : wpc'[v] = "woken"

\* a woken watcher that finds the context cancelled ends and sends nothing
C22_Woken(v) ==
    (shutdown /\ wpc[v] = "woken" /\ wpc'[v] # "woken") =>
        /\ wpc'[v] = "done"
        /\ closed'[v]
        /\ Events(v)' = Events(v)

\* tui has returned: no command, no change of the State, no broadcast
C22_Gone ==
    cpc = "exit" =>
        /\ UNCHANGED <<st, cpc, ncmd, last>>
        /\ \A v \in Viewers : ~(wpc[v] = "waiting" /\ wpc'[v] = "woken")

\* C22: Quit calls shutdown(), then broadcasts, then leaves the loop: a
\* watcher woken by that broadcast finds the context cancelled and sends no
\* event, and after Quit the controller changes no State and broadcasts no more.
C22_QuitOrder ==
    /\ [][C22_Order /\ C22_Gone /\ \A v \in Viewers : C22_Woken(v)]_vars
    /\ [](cpc \in {"qbcast", "exit"} => shutdown)

\* Quit was the only command: its broadcast woke the watcher, which ended
\* without an event while its handler was still in the loop
C22_Witness ==
    /\ ncmd = 1
    /\ last.cmd = "Quit"
    /\ cpc = "exit"
    /\ wpc[1] = "done"
    /\ closed[1]
    /\ hpc[1] = "loop"
    /\ Emitted(1) = <<>>

\* with nothing on its way, what the watcher remembers is what the viewer has
\* been given: the generation of its page and the slide it shows
C23_Synced(v) ==
    (hpc[v] = "loop" /\ wpc[v] \in {"prewait", "waiting"} /\ ch[v] = <<>>) =>
        /\ wgen[v] = snap[v][1].Generation
        /\ wcur[v] = Told(v)

\* C23: the generation and index a viewer's watcher remembers are those the
\* viewer has been told; right after the connect they are those of the page
\* that was served, however the connect interleaves with GotoSlide and Reload.
C23_ObservedIsTold == \A v \in Viewers : C23_Synced(v)

\* the commands with no case of their own, or with a local one
OtherCmds == {"Redraw", "Unknown"}

\* the events that decodeTcellEvent turns into such a command
OtherEvents == {e \in TcellEvents : decodeTcellEvent(e) \in OtherCmds}

\* the step that reads such a command changes nothing but the record of it
C24_Step ==
    (ncmd' = ncmd + 1 /\ last'.cmd \in OtherCmds) =>
        /\ UNCHANGED <<st, wlock, readers, cpc, creq, shutdown, dropping>>
        /\ UNCHANGED <<handlerVars, watcherVars, chanVars>>

\* after such a command the controller is back at PollEvent, and a run of
\* nothing but such commands has changed no State and sent no event
C24_Idle ==
    last.cmd \in OtherCmds =>
        /\ cpc = "idle"
        /\ last.n = ncmd =>
              /\ st = InitialState(ThreeSlides)
              /\ \A v \in Viewers : Emitted(v) = <<>>

\* C24: Redraw and Unknown leave the State as it is and broadcast nothing, so
\* no viewer is sent an event because of them; a resize is the only Redraw and
\* every event without a binding is Unknown.
C24_OtherCommands ==
    /\ [][C24_Step]_vars
    /\ [](C24_Idle)
    /\ [](/\ \A e \in TcellEvents :
               decodeTcellEvent(e) = "Redraw" <=> e.type = "resize"
          /\ [type |-> "rune", arg |-> "x"] \in OtherEvents
          /\ [type |-> "mouse", arg |-> "Button3"] \in OtherEvents
          /\ [type |-> "key", arg |-> "Enter"] \in OtherEvents
          /\ [type |-> "interrupt", arg |-> "none"] \in OtherEvents)

\* two Redraw were read while a viewer waited in its loop: nothing was sent
C24_Witness ==
    /\ last.cmd = "Redraw"
    /\ last.n = 2
    /\ ncmd = 2
    /\ hpc[1] = "loop"
    /\ wpc[1] = "waiting"
    /\ Emitted(1) = <<>>

\* what belongs to the request of viewer v
Own(v) ==
    <<hpc[v], sctx[v], snap[v], delivered[v], wpc[v], wgen[v], wcur[v], ch[v],
      closed[v]>>

\* a step of v's handler or watcher leaves the State, the shutdown and the
\* controller alone, and everything of the other viewers
C25_Step(v) ==
    (Handler(v) \/ Watcher(v)) =>
        /\ UNCHANGED <<st, shutdown, dropping, ctlVars>>
        /\ \A u \in Viewers \ {v} : Own(u)' = Own(u)

\* C25: the State is written by the controller's GotoSlide and Reload only: no
\* step of a handler or of an EventStream, a handler that ends on a failed
\* write included, changes a field of it or anything of another viewer.
C25_OnlyControllerWrites ==
    /\ [][\A v \in Viewers : C25_Step(v)]_vars
    /\ [][st' # st => (cpc = "lock" /\ (GotoSlideBody \/ ReloadBody))]_vars

\* the first viewer's handler ended on a failed write while the second
\* followed the presentation to slide 3
C25_Witness ==
    /\ hpc[1] = "done"
    /\ snap[1] = <<>>
    /\ hpc[2] = "loop"
    /\ delivered[2] # <<>>
    /\ Told(2) = st.Current
    /\ st.Current = 3

\* a source without slides: nothing is left once the white space is trimmed
NoSlides(file) == file.ok /\ TrimSpace(file.content) = <<>>

\* C26: a Reload of a source without slides (an empty or blank file) fails and
\* changes no field, so the State never holds what loadSlides makes of such a
\* source: Total is never set for a presentation without slides.
C26_EmptySourceFails ==
    \A f \in Files : NoSlides(f) => st.SlidesRaw # loadSlides(f).raw

\* no two neighbours of a sequence are equal
NoRepeat(q) == \A i \in 1..(Len(q) - 1) : q[i] # q[i + 1]

\* a slide put into the channel is the Current of the State at that moment,
\* within 1..Total, and not the one the watcher remembered before it
C27_Sent(v) ==
    (Len(ch'[v]) = Len(ch[v]) + 1 /\ ch'[v][Len(ch'[v])].kind = "slide") =>
        LET i == ch'[v][Len(ch'[v])].idx
        IN  /\ i = st.Current
            /\ 1 <= i /\ i <= st.Total
            /\ wcur'[v] = i
            /\ Len(observed'[v]) >= 2
            /\ observed'[v][Len(observed'[v])] = i
            /\ observed'[v][Len(observed'[v]) - 1] # i

\* a slide handed to the viewer is not the one it shows already
C27_Received(v) ==
    (hpc[v] = "loop" /\ ch[v] # <<>> /\ Head(ch[v]).kind = "slide"
        /\ delivered'[v] = Append(delivered[v], Head(ch[v]))) =>
        Head(ch[v]).idx # Told(v)

\* a wake that finds the remembered index sends nothing
C27_Quiet(v) ==
    (wpc[v] = "rlock" /\ wpc'[v] # "rlock" /\ Diff(st, wgen[v], wcur[v]) = "none") =>
        Events(v)' = Events(v)

\* what the watcher does by itself: what it sends is current and new to it
C27_WatcherSide ==
    /\ [][\A v \in Viewers : C27_Sent(v) /\ C27_Quiet(v)]_vars
    /\ [](\A v \in Viewers : NoRepeat(SlideIdx(Events(v))))

\* C27: every SlideChanged(i) sent to a viewer has 1 <= i <= Total, is the
\* committed Current the watcher read and differs from the index the viewer
\* was last told; a wake with the index unchanged sends nothing; no viewer
\* gets the same index in two SlideChanged in a row.
C27_SlideEvents ==
    /\ C27_WatcherSide
    /\ [][\A v \in Viewers : C27_Received(v)]_vars

\* the controller waits in Lock() behind a watcher that holds the shared lock
\* in a send nobody will receive: the handler waits for the shared lock behind
\* the waiting writer, or has returned
Deadlocked(v) ==
    /\ cpc = "lock"
    /\ Blocked(v)
    /\ <<v, "w">> \in readers
    /\ hpc[v] \in {"snap", "done"}

\* C28: the controller, a watcher and its handler never block each other for
\* good: a controller that asks for the exclusive lock gets it in the end.
C28_LockGranted ==
    /\ [](\A v \in Viewers : ~Deadlocked(v))
    /\ (cpc = "lock") ~> (cpc = "bcast")

\* the operations that are not inside a locked section hold no lock
C29_Released ==
    /\ cpc # "lock" => wlock = "free"
    /\ \A v \in Viewers : hpc[v] # "render" => <<v, "h">> \notin readers
    /\ \A v \in Viewers : ~Blocked(v) => <<v, "w">> \notin readers
    /\ mpc # "dumpRender" => Dumper \notin readers

\* C29: every operation that takes the lock on the State gives it back on
\* every path, those that end in an error included: GotoSlide, Reload, the
\* handler's page, a watcher's comparison and Dump hold no lock once over.
C29_LocksReleased == C29_Released

=============================================================================
